---- MODULE Spec2Model ----
(***************************************************************************)
(* A model of jsonrpclib/jsonrpc.py: the payload builder (Payload, dump,   *)
(* dumps), the error classifier (check_for_errors), the single-call proxy  *)
(* (ServerProxy, _Method, _Notify) and the batch engine (MultiCall,        *)
(* MultiCallMethod, MultiCallNotify, MultiCallIterator).                   *)
(*                                                                         *)
(* Python values are tagged records [t |-> tag, v |-> payload]:            *)
(*   none, int, str, name (a method-name string, kept as its sequence of   *)
(*   segments and "." separators), uuid (a str(uuid.uuid4()) token),       *)
(*   tuple, list, dict (a function from keys to values), fault.            *)
(* A JSON text is [t |-> "text", v |-> x]: x is the JSON value the text    *)
(* denotes, or the empty text, or text that is not JSON.                   *)
(* Protocol versions are floats in the code; here they are tenths:         *)
(* 10, 11, 20 stand for 1.0, 1.1, 2.0.                                     *)
(***************************************************************************)
EXTENDS Integers, Sequences, FiniteSets, TLC

VARIABLES
    python,     \* the interpreter the library runs on (sys.version_info)
    cfgVersion, \* config.version, the process-wide default protocol version
    version,    \* ServerProxy.__version
    history,    \* ServerProxy.__history: None, or the History object's log
    exchanges,  \* number of calls made to ServerProxy.__transport.request
    lastBody,   \* the request body of the latest transport exchange
    uuids,      \* number of uuid.uuid4() tokens drawn so far
    meth,       \* the _Method reference the caller holds (None when it holds none)
    jobList,    \* MultiCall._job_list
    nextObj,    \* identity of the next MultiCallMethod object to be created
    view,       \* what the latest MultiCall invocation returned
    iter,       \* the generator of MultiCallIterator.__iter__ the caller drives
    last        \* outcome of the latest operation: what it returned or raised

vars == <<python, cfgVersion, version, history, exchanges, lastBody, uuids, meth,
          jobList, nextObj, view, iter, last>>

----------------------------------------------------------------------------
(* Bounds of the model *)

MaxPath == 2        \* longest method path, in segments, a caller builds
MaxJobs == 2        \* MultiCallMethod objects created in one run
MaxExchanges == 2   \* transport exchanges in one run
MaxResp == 2        \* longest batch response array the transport returns
MaxDraws == 1       \* ids a caller of dump lets it draw in one run

----------------------------------------------------------------------------
(* Python values *)

None == [t |-> "none"]
PyInt(n) == [t |-> "int", v |-> n]
Str(s) == [t |-> "str", v |-> s]
Name(segs) == [t |-> "name", v |-> segs]
Uuid(n) == [t |-> "uuid", v |-> n]
Tuple(s) == [t |-> "tuple", v |-> s]
List(s) == [t |-> "list", v |-> s]
Dict(f) == [t |-> "dict", v |-> f]
EmptyDict == Dict(<<>>)
Fault(code, message, rpcid) ==
    [t |-> "fault", code |-> code, message |-> message, rpcid |-> rpcid]
PyBool(b) == [t |-> "bool", v |-> b]

\* bool(x), as the conditions "if not x" / "if x" evaluate it
Truthy(x) ==
    CASE x.t = "none" -> FALSE
      [] x.t = "int" -> x.v # 0
      [] x.t = "bool" -> x.v
      [] x.t = "str" -> x.v # ""
      [] x.t \in {"tuple", "list", "name"} -> Len(x.v) > 0
      [] x.t = "dict" -> DOMAIN x.v # {}
      [] OTHER -> TRUE

\* type(x) in utils.StringTypes
IsStringType(x) == x.t \in {"str", "name", "uuid"}

\* Outcomes of a call: a returned value or a raised exception
Ret(x) == [kind |-> "return", val |-> x]
Raise(exc, arg) == [kind |-> "raise", exc |-> exc, arg |-> arg]
Returned(o) == o.kind = "return"
Raised(o) == o.kind = "raise"

\* The interpreters the module supports (the sys.version_info branches),
\* "3.7" standing for the releases where PEP 479 is in force.
Interpreters == {"2", "3", "3.7"}

\* The protocol versions
Versions == {10, 11, 20}

\* str(float): the jsonrpc field of an envelope
FloatStr(ver) ==
    CASE ver = 10 -> "1.0" [] ver = 11 -> "1.1" [] ver = 20 -> "2.0"
      [] ver = 30 -> "3.0" [] OTHER -> "?"

\* float(x) of a jsonrpc field, in tenths; -1 when float() raises
ToFloat(x) ==
    CASE x.t = "int" -> 10 * x.v
      [] x.t = "str" /\ x.v = "1.0" -> 10
      [] x.t = "str" /\ x.v = "1.1" -> 11
      [] x.t = "str" /\ x.v = "2.0" -> 20
      [] x.t = "str" /\ x.v = "3.0" -> 30
      [] OTHER -> -1

----------------------------------------------------------------------------
(* Payload builder: class Payload, dump, dumps *)

Has(d, k) == k \in DOMAIN d.v
Put(d, k, x) == Dict((k :> x) @@ d.v)
Del(d, k) == Dict([j \in DOMAIN d.v \ {k} |-> d.v[j]])

\* Payload.__init__: ver = 0 stands for a falsy version argument
Payload(rpcid, ver, cfg) ==
    [id |-> rpcid, version |-> IF ver = 0 THEN cfg ELSE ver]

\* Payload.request; fresh is the str(uuid.uuid4()) it would draw
PayloadRequest(p, method, params, fresh) ==
    IF ~IsStringType(method)
    THEN Raise("ValueError", Str("Method name must be a string."))
    ELSE LET id == IF ~Truthy(p.id) THEN fresh ELSE p.id
             r1 == Dict(("id" :> id) @@ ("method" :> method))
             r2 == IF Truthy(params) \/ p.version < 11
                   THEN Put(r1, "params", params) ELSE r1
             r3 == IF p.version >= 20
                   THEN Put(r2, "jsonrpc", Str(FloatStr(p.version))) ELSE r2
         IN  Ret(r3)

\* A notify that hands the request back as it is
PayloadNotifyKeepsId(p, method, params, fresh) ==
    PayloadRequest(p, method, params, fresh)

\* Payload.notify
PayloadNotify(p, method, params, fresh) ==
    LET r == PayloadRequest(p, method, params, fresh)
    IN  IF Raised(r) THEN r
        ELSE IF p.version >= 20 THEN Ret(Del(r.val, "id"))
        ELSE Ret(Put(r.val, "id", None))

\* Payload.response
PayloadResponse(p, result) ==
    LET r == Dict(("result" :> result) @@ ("id" :> p.id))
    IN  IF p.version >= 20 THEN Put(r, "jsonrpc", Str(FloatStr(p.version)))
        ELSE Put(r, "error", None)

\* An error that keeps the result member whatever the version
PayloadErrorKeepsResult(p, code, message) ==
    LET e == PayloadResponse(p, None)
    IN  Put(e, "error", Dict(("code" :> code) @@ ("message" :> message)))

\* Payload.error
PayloadError(p, code, message) ==
    LET e == PayloadResponse(p, None)
        e1 == IF p.version >= 20 THEN Del(e, "result") ELSE Put(e, "result", None)
    IN  Put(e1, "error", Dict(("code" :> code) @@ ("message" :> message)))

\* "methodname in utils.StringTypes": membership of the VALUE in the tuple of
\* string types, true only of a value that is itself one of those type objects
InStringTypes(x) == x.t = "type" /\ x.v \in {"str", "unicode"}

\* isinstance(params, (tuple, list, dict, Fault))
ValidParams(x) == x.t \in {"tuple", "list", "dict", "fault"}

\* A test for the id of a response that refuses every falsy id
MissingIdFalsy(rpcid) == ~Truthy(rpcid)

\* rpcid is None
MissingId(rpcid) == rpcid.t = "none"

\* dump (marshalling through jsonclass switched off)
Dump(params, methodname, rpcid, ver, isResponse, isNotify, cfg, fresh) ==
    LET p == Payload(rpcid, IF ver = 0 THEN cfg ELSE ver, cfg)
    IN  IF InStringTypes(methodname) /\ ~ValidParams(params)
        THEN Raise("TypeError", Str("Params must be a dict, list, tuple or Fault instance."))
        ELSE IF params.t = "fault"
        THEN Ret(PayloadError(p, params.code, params.message))
        ELSE IF ~IsStringType(methodname) /\ ~isResponse
        THEN Raise("ValueError", Str("Method name must be a string, or is_response must be set to True."))
        ELSE IF isResponse
        THEN IF MissingId(rpcid)
             THEN Raise("ValueError", Str("A method response must have an rpcid."))
             ELSE Ret(PayloadResponse(p, params))
        ELSE IF isNotify
        THEN PayloadNotify(p, methodname, params, fresh)
        ELSE PayloadRequest(p, methodname, params, fresh)

\* isnotification
IsNotification(request) ==
    IF ~Has(request, "id") THEN TRUE
    ELSE IF request.v["id"].t = "none" THEN TRUE
    ELSE FALSE

\* Whether dump gets as far as Payload.request and finds no id there, so
\* that it draws a uuid4 token
DrawsUuid(params, methodname, rpcid, isResponse) ==
    /\ ~(InStringTypes(methodname) /\ ~ValidParams(params))
    /\ params.t # "fault"
    /\ IsStringType(methodname)
    /\ ~isResponse
    /\ ~Truthy(rpcid)

\* An encoder that writes a tuple as the string of its repr
RECURSIVE JValueTupleAsString(_)
JValueTupleAsString(x) ==
    CASE x.t = "tuple" -> Str("(...)")
      [] x.t = "list" -> List([i \in DOMAIN x.v |-> JValueTupleAsString(x.v[i])])
      [] x.t = "dict" -> Dict([k \in DOMAIN x.v |-> JValueTupleAsString(x.v[k])])
      [] OTHER -> x

\* jdumps: the JSON value a Python value is written as (a tuple is written
\* as an array, a method name as a string)
RECURSIVE JValue(_)
JValue(x) ==
    CASE x.t \in {"tuple", "list"} -> List([i \in DOMAIN x.v |-> JValue(x.v[i])])
      [] x.t = "dict" -> Dict([k \in DOMAIN x.v |-> JValue(x.v[k])])
      [] OTHER -> x

Text(j) == [t |-> "text", v |-> j]
EmptyText == [t |-> "text", v |-> [t |-> "empty"]]
GarbageText == [t |-> "text", v |-> [t |-> "garbage"]]

jdumps(x) == Text(JValue(x))

\* dumps
Dumps(params, methodname, methodresponse, rpcid, ver, notify, cfg, fresh) ==
    LET r == Dump(params, methodname, rpcid, ver, methodresponse, notify, cfg, fresh)
    IN  IF Raised(r) THEN r ELSE Ret(jdumps(r.val))

\* loads (jloads raises on text that is not JSON)
Loads(text) ==
    IF text.v.t = "empty" THEN Ret(None)
    ELSE IF text.v.t = "garbage" THEN Raise("ValueError", Str("No JSON object could be decoded"))
    ELSE Ret(text.v)

\* Fault.dump: the id given if it is truthy, else the id of the fault
FaultDump(f, rpcid, ver, cfg) ==
    Dump(f, None, IF Truthy(rpcid) THEN rpcid ELSE f.rpcid,
         IF ver = 0 THEN cfg ELSE ver, TRUE, FALSE, cfg, None)

\* Fault.response: the same envelope, as a text
FaultResponse(f, rpcid, ver, cfg) ==
    Dumps(f, None, TRUE, IF Truthy(rpcid) THEN rpcid ELSE f.rpcid,
          IF ver = 0 THEN cfg ELSE ver, FALSE, cfg, None)

\* The latest operation when it is a build: the arguments dump was called
\* with and what it returned or raised
Built(op, params, methodname, rpcid, ver, isResponse, isNotify, out) ==
    [op |-> op, params |-> params, methodname |-> methodname, rpcid |-> rpcid,
     version |-> ver, isResponse |-> isResponse, isNotify |-> isNotify, out |-> out]

\* dump(params, methodname, rpcid, version, is_response, is_notify), called
\* directly
DumpCalled(params, methodname, rpcid, ver, isResponse, isNotify) ==
    /\ DrawsUuid(params, methodname, rpcid, isResponse) => uuids < MaxDraws
    /\ last' = Built("dump", params, methodname, rpcid, ver, isResponse, isNotify,
                     Dump(params, methodname, rpcid, ver, isResponse, isNotify,
                          cfgVersion, Uuid(uuids + 1)))
    /\ uuids' = IF DrawsUuid(params, methodname, rpcid, isResponse)
                THEN uuids + 1 ELSE uuids
    /\ UNCHANGED <<python, cfgVersion, version, history, exchanges, lastBody,
                   meth, jobList, nextObj, view, iter>>

\* fault.dump(rpcid, version)
FaultDumpCalled(f, rpcid, ver) ==
    /\ last' = Built("Fault.dump", f, None, IF Truthy(rpcid) THEN rpcid ELSE f.rpcid,
                     ver, TRUE, FALSE, FaultDump(f, rpcid, ver, cfgVersion))
    /\ UNCHANGED <<python, cfgVersion, version, history, exchanges, lastBody, uuids,
                   meth, jobList, nextObj, view, iter>>

\* fault.response(rpcid, version)
FaultResponseCalled(f, rpcid, ver) ==
    /\ last' = Built("Fault.response", f, None, IF Truthy(rpcid) THEN rpcid ELSE f.rpcid,
                     ver, TRUE, FALSE, FaultResponse(f, rpcid, ver, cfgVersion))
    /\ UNCHANGED <<python, cfgVersion, version, history, exchanges, lastBody, uuids,
                   meth, jobList, nextObj, view, iter>>

----------------------------------------------------------------------------
(* Error classifier: check_for_errors *)

\* x[k] for a string key k
Subscript(x, k) ==
    IF x.t = "dict"
    THEN IF k \in DOMAIN x.v THEN Ret(x.v[k]) ELSE Raise("KeyError", Str(k))
    ELSE Raise("TypeError", Str("not subscriptable by a string"))

\* x[-1 - i]: the sequence read from its end
IndexFromEnd(x, i) ==
    IF x.t \in {"list", "tuple"}
    THEN IF i < Len(x.v) THEN Ret(x.v[Len(x.v) - i]) ELSE Raise("IndexError", PyInt(i))
    ELSE IF x.t = "dict" THEN Raise("KeyError", PyInt(i))
    ELSE Raise("TypeError", Str("not subscriptable"))

\* x[i] for an index i >= 0 (i counts from 0, as in the code)
Index(x, i) ==
    IF x.t \in {"list", "tuple"}
    THEN IF i < Len(x.v) THEN Ret(x.v[i + 1]) ELSE Raise("IndexError", PyInt(i))
    ELSE IF x.t = "dict" THEN Raise("KeyError", PyInt(i))
    ELSE Raise("TypeError", Str("not subscriptable"))

\* len(x)
PyLen(x) ==
    IF x.t \in {"list", "tuple"} THEN Ret(PyInt(Len(x.v)))
    ELSE IF x.t = "dict" THEN Ret(PyInt(Cardinality(DOMAIN x.v)))
    ELSE Raise("TypeError", Str("object has no len()"))

\* The range of the pre-defined error codes
ReservedLow == -32700
ReservedHigh == -32000

\* A range test that leaves its two bounds out
InReservedRangeExclusive(code) == ReservedLow < code.v /\ code.v < ReservedHigh

\* -32700 <= code <= -32000
InReservedRange(code) == ReservedLow <= code.v /\ code.v <= ReservedHigh

\* The branch of check_for_errors taken for a truthy error member e
ClassifyError(e, py) ==
    IF e.t # "dict"
    THEN IF e.t = "int"
         THEN Raise("TypeError", Str("argument of type 'int' is not iterable"))
         ELSE Raise("ProtocolError", e)
    ELSE IF "code" \in DOMAIN e.v
    THEN LET code == e.v["code"]
             message == IF "message" \in DOMAIN e.v THEN e.v["message"]
                        ELSE IF "trace" \in DOMAIN e.v THEN e.v["trace"]
                        ELSE Str("<no error message>")
             data == IF "data" \in DOMAIN e.v THEN e.v["data"] ELSE None
         IN  IF InReservedRange(code)
             THEN Raise("ProtocolError", Tuple(<<code, message>>))
             ELSE Raise("AppError", Tuple(<<code, message, data>>))
    ELSE IF Cardinality(DOMAIN e.v) = 1
    THEN IF py = "2"
         THEN Raise("ProtocolError", e.v[CHOOSE k \in DOMAIN e.v : TRUE])
         ELSE Raise("TypeError", Str("'dict_keys' object is not subscriptable"))
    ELSE Raise("ProtocolError", e)

\* A classifier that tests for the result and error members before it tests
\* the version
CheckForErrorsKeysFirst(result, py) ==
    IF ~Truthy(result) THEN Ret(result)
    ELSE IF result.t # "dict" THEN Raise("TypeError", Str("Response is not a dict."))
    ELSE IF ~Has(result, "result") /\ ~Has(result, "error")
    THEN Raise("ValueError", Str("Response does not have a result or error key."))
    ELSE IF Has(result, "jsonrpc") /\ ToFloat(result.v["jsonrpc"]) = -1
    THEN Raise(IF result.v["jsonrpc"].t = "str" THEN "ValueError" ELSE "TypeError",
               Str("could not convert to float"))
    ELSE IF Has(result, "jsonrpc") /\ ToFloat(result.v["jsonrpc"]) > 20
    THEN Raise("NotImplementedError", Str("JSON-RPC version not yet supported."))
    ELSE IF Has(result, "error") /\ Truthy(result.v["error"])
    THEN ClassifyError(result.v["error"], py)
    ELSE Ret(result)

\* check_for_errors (float() raises ValueError on a string that is no
\* number and TypeError on a value that is neither a string nor a number)
CheckForErrors(result, py) ==
    IF ~Truthy(result) THEN Ret(result)
    ELSE IF result.t # "dict" THEN Raise("TypeError", Str("Response is not a dict."))
    ELSE IF Has(result, "jsonrpc") /\ ToFloat(result.v["jsonrpc"]) = -1
    THEN Raise(IF result.v["jsonrpc"].t = "str" THEN "ValueError" ELSE "TypeError",
               Str("could not convert to float"))
    ELSE IF Has(result, "jsonrpc") /\ ToFloat(result.v["jsonrpc"]) > 20
    THEN Raise("NotImplementedError", Str("JSON-RPC version not yet supported."))
    ELSE IF ~Has(result, "result") /\ ~Has(result, "error")
    THEN Raise("ValueError", Str("Response does not have a result or error key."))
    ELSE IF Has(result, "error") /\ Truthy(result.v["error"])
    THEN ClassifyError(result.v["error"], py)
    ELSE Ret(result)

\* An isbatch that takes a version only when it is above 2
IsBatchAboveTwo(result) ==
    IF result.t \notin {"list", "tuple"} THEN Ret(PyBool(FALSE))
    ELSE IF Len(result.v) < 1 THEN Ret(PyBool(FALSE))
    ELSE IF result.v[1].t # "dict" THEN Ret(PyBool(FALSE))
    ELSE IF ~Has(result.v[1], "jsonrpc") THEN Ret(PyBool(FALSE))
    ELSE LET j == result.v[1].v["jsonrpc"]
         IN  IF ToFloat(j) = -1
             THEN IF j.t = "str"
                  THEN Raise("ProtocolError", Str("\"jsonrpc\" key must be a float(able) value."))
                  ELSE Raise("TypeError", Str("float() argument must be a string or a number"))
             ELSE IF ToFloat(j) <= 20 THEN Ret(PyBool(FALSE))
             ELSE Ret(PyBool(TRUE))

\* isbatch: float() raises ValueError on a string that is no number, which
\* the function turns into ProtocolError, and TypeError on a value that is
\* neither a string nor a number, which it lets through
IsBatch(result) ==
    IF result.t \notin {"list", "tuple"} THEN Ret(PyBool(FALSE))
    ELSE IF Len(result.v) < 1 THEN Ret(PyBool(FALSE))
    ELSE IF result.v[1].t # "dict" THEN Ret(PyBool(FALSE))
    ELSE IF ~Has(result.v[1], "jsonrpc") THEN Ret(PyBool(FALSE))
    ELSE LET j == result.v[1].v["jsonrpc"]
         IN  IF ToFloat(j) = -1
             THEN IF j.t = "str"
                  THEN Raise("ProtocolError", Str("\"jsonrpc\" key must be a float(able) value."))
                  ELSE Raise("TypeError", Str("float() argument must be a string or a number"))
             ELSE IF ToFloat(j) < 20 THEN Ret(PyBool(FALSE))
             ELSE Ret(PyBool(TRUE))

\* The latest operation when it is the application of a function of the
\* module to an argument
Applied(op, arg, out) == [op |-> op, arg |-> arg, out |-> out]

\* check_for_errors(result), called directly
Classify(result) ==
    /\ last' = Applied("check_for_errors", result, CheckForErrors(result, python))
    /\ UNCHANGED <<python, cfgVersion, version, history, exchanges, lastBody, uuids,
                   meth, jobList, nextObj, view, iter>>

\* isbatch(result), called directly
IsBatchCalled(result) ==
    /\ last' = Applied("isbatch", result, IsBatch(result))
    /\ UNCHANGED <<python, cfgVersion, version, history, exchanges, lastBody, uuids,
                   meth, jobList, nextObj, view, iter>>

\* The latest operation when it is a round trip of a request: what dump
\* built, the text dumps wrote, what loads read and what check_for_errors
\* made of it
Trip(methodname, params, rpcid, ver, built, text, decoded, out) ==
    [op |-> "roundtrip", methodname |-> methodname, params |-> params,
     rpcid |-> rpcid, version |-> ver, isResponse |-> FALSE, isNotify |-> FALSE,
     built |-> built, text |-> text, decoded |-> decoded, out |-> out]

\* check_for_errors(loads(dumps(params, methodname, rpcid=rpcid,
\* version=version)))
RoundTrip(methodname, params, rpcid, ver) ==
    LET fresh == Uuid(uuids + 1)
        built == Dump(params, methodname, rpcid, ver, FALSE, FALSE, cfgVersion, fresh)
        text == Dumps(params, methodname, FALSE, rpcid, ver, FALSE, cfgVersion, fresh)
        decoded == IF Raised(text) THEN text ELSE Loads(text.val)
        out == IF Raised(decoded) THEN decoded ELSE CheckForErrors(decoded.val, python)
    IN  /\ DrawsUuid(params, methodname, rpcid, FALSE) => uuids < MaxDraws
        /\ last' = Trip(methodname, params, rpcid, ver, built, text, decoded, out)
        /\ uuids' = IF DrawsUuid(params, methodname, rpcid, FALSE)
                    THEN uuids + 1 ELSE uuids
        /\ UNCHANGED <<python, cfgVersion, version, history, exchanges, lastBody,
                       meth, jobList, nextObj, view, iter>>

----------------------------------------------------------------------------
(* Transport exchange: ServerProxy._run_request *)

\* What the transport collaborator does with a request: it raises, or it
\* returns a response text
TransportRaises == [k |-> "raise"]
Reply(text) == [k |-> "reply", text |-> text]

NoHistory == [t |-> "none"]
EmptyHistory == [t |-> "history", v |-> <<>>]
AddEntry(h, dir, text) ==
    IF h.t = "none" THEN h
    ELSE [t |-> "history", v |-> Append(h.v, [dir |-> dir, text |-> text])]

\* A _run_request that records a response only once it has found it non-empty
HistoryDropsEmpty(h, request, reply) ==
    LET h1 == AddEntry(h, "request", request)
    IN  IF reply.k = "raise" \/ reply.text.v.t = "empty" THEN h1
        ELSE AddEntry(h1, "response", reply.text)

\* The history after _run_request(request) when the transport does reply
HistoryAfter(h, request, reply) ==
    LET h1 == AddEntry(h, "request", request)
    IN  IF reply.k = "raise" THEN h1 ELSE AddEntry(h1, "response", reply.text)

\* What _run_request(request) returns or raises when the transport does reply
RunRequest(request, reply) ==
    IF reply.k = "raise" THEN Raise("TransportError", None)
    ELSE IF reply.text.v.t = "empty" THEN Ret(None)
    ELSE Loads(reply.text)

----------------------------------------------------------------------------
(* What the caller supplies *)

Segments == {"a", "b"}
ArgLists == {<<>>, <<PyInt(1)>>}
KwargMaps == {<<>>, ("k" :> PyInt(1))}

\* The latest operation: its name, the sizes of its argument lists, what the
\* transport answered (NoReply when it was not asked) and the outcome
NoReply == [k |-> "none"]
Op(op, nargs, nkwargs, reply, out) ==
    [op |-> op, nargs |-> nargs, nkwargs |-> nkwargs, reply |-> reply, out |-> out]

\* The latest operation when it is an invocation of the batch engine: njobs
\* is the length of the job list it found
BatchOp(njobs, reply, out) ==
    [op |-> "MultiCall.__call__", njobs |-> njobs, reply |-> reply, out |-> out]

----------------------------------------------------------------------------
(* Single-call proxy: ServerProxy, _Notify, _Method *)

NoMethod == [t |-> "none"]

\* _Method(send, name): path lists the attribute names this reference was
\* reached by, invoked tells whether it has been called
Method(send, seg) ==
    [t |-> "method", send |-> send, name |-> Name(<<seg>>),
     path |-> <<seg>>, invoked |-> FALSE]

\* '%s.%s' % (attr, name): the arguments of the format swapped
DotFormatSwapped(name, attr) == Name(<<attr, ".">> \o name.v)

\* '%s.%s' % (name, attr)
DotFormat(name, attr) == Name(name.v \o <<".", attr>>)

\* ServerProxy.__getattr__
ServerProxyGetattr(seg) ==
    /\ meth' = Method("_request", seg)
    /\ last' = Op("ServerProxy.__getattr__", 0, 0, NoReply, Ret(None))
    /\ UNCHANGED <<python, cfgVersion, version, history, exchanges, lastBody,
                   uuids, jobList, nextObj, view, iter>>

\* ServerProxy._notify followed by _Notify.__getattr__
NotifyGetattr(seg) ==
    /\ meth' = Method("_request_notify", seg)
    /\ last' = Op("_Notify.__getattr__", 0, 0, NoReply, Ret(None))
    /\ UNCHANGED <<python, cfgVersion, version, history, exchanges, lastBody,
                   uuids, jobList, nextObj, view, iter>>

\* _Method.__getattr__ for a name other than "__name__"
MethodExtended(m, seg) ==
    [m EXCEPT !.name = DotFormat(m.name, seg), !.path = Append(m.path, seg)]

MethodGetattr(seg) ==
    /\ meth.t = "method"
    /\ Len(meth.path) < MaxPath
    /\ meth' = MethodExtended(meth, seg)
    /\ last' = Op("_Method.__getattr__", 0, 0, NoReply, Ret(None))
    /\ UNCHANGED <<python, cfgVersion, version, history, exchanges, lastBody,
                   uuids, jobList, nextObj, view, iter>>

\* _Method.__getattr__("__name__")
MethodGetName ==
    /\ meth.t = "method"
    /\ last' = Op("_Method.__name__", 0, 0, NoReply, Ret(meth.name))
    /\ UNCHANGED <<python, cfgVersion, version, history, exchanges, lastBody,
                   uuids, meth, jobList, nextObj, view, iter>>

\* A test of the argument lists that lets every call through
NeverBoth(args, kwargs) == FALSE

\* len(args) > 0 and len(kwargs) > 0
BothGiven(args, kwargs) == Len(args) > 0 /\ DOMAIN kwargs # {}

\* A notification that unwraps the result as a request does
AfterExchangeAsRequest(notify, resp, py) ==
    IF Raised(resp) THEN resp
    ELSE LET chk == CheckForErrors(resp.val, py)
         IN  IF Raised(chk) THEN chk ELSE Subscript(resp.val, "result")

\* ServerProxy._request / ServerProxy._request_notify after the exchange:
\* what the call returns or raises given what _run_request produced
AfterExchange(notify, resp, py) ==
    IF Raised(resp) THEN resp
    ELSE LET chk == CheckForErrors(resp.val, py)
         IN  IF Raised(chk) THEN chk
             ELSE IF notify THEN Ret(None)
             ELSE Subscript(resp.val, "result")

\* _Method.__call__, through ServerProxy._request or ._request_notify
MethodCall(args, kwargs, reply) ==
    /\ meth.t = "method"
    /\ IF BothGiven(args, kwargs)
       THEN /\ last' = Op("_Method.__call__", Len(args), Cardinality(DOMAIN kwargs), NoReply,
                          Raise("ProtocolError", Str("Cannot use both positional and keyword arguments (according to JSON-RPC spec.)")))
            /\ UNCHANGED <<history, exchanges, lastBody, uuids, meth>>
       ELSE LET params == IF Len(args) > 0 THEN Tuple(args) ELSE Dict(kwargs)
                notify == meth.send = "_request_notify"
                req == Dumps(params, meth.name, FALSE, None, version, notify,
                             cfgVersion, Uuid(uuids + 1))
            IN  IF Raised(req)
                THEN /\ last' = Op("_Method.__call__", Len(args),
                                   Cardinality(DOMAIN kwargs), NoReply, req)
                     /\ UNCHANGED <<history, exchanges, lastBody, uuids, meth>>
                ELSE /\ exchanges < MaxExchanges
                     /\ uuids' = uuids + 1
                     /\ history' = HistoryAfter(history, req.val, reply)
                     /\ exchanges' = exchanges + 1
                     /\ lastBody' = req.val
                     /\ meth' = [meth EXCEPT !.invoked = TRUE]
                     /\ last' = Op("_Method.__call__", Len(args),
                                   Cardinality(DOMAIN kwargs), reply,
                                   AfterExchange(notify, RunRequest(req.val, reply), python))
    /\ UNCHANGED <<python, cfgVersion, version, jobList, nextObj, view, iter>>

----------------------------------------------------------------------------
(* Batch engine: MultiCall, MultiCallNotify, MultiCallMethod *)

\* MultiCallMethod(method, notify); obj is the identity of the object
Job(obj, seg, notify) ==
    [obj |-> obj, method |-> Name(<<seg>>), params |-> List(<<>>), notify |-> notify]

\* A job list that takes a new job at its head
EnqueueAtHead(list, job) == <<job>> \o list

\* A job list that the access to an attribute leaves alone
EnqueueLater(list, job) == list

\* self._job_list.append(new_job)
Enqueue(list, job) == Append(list, job)

\* MultiCall.__getattr__
MultiCallGetattr(seg) ==
    /\ nextObj <= MaxJobs
    /\ jobList' = Enqueue(jobList, Job(nextObj, seg, FALSE))
    /\ nextObj' = nextObj + 1
    /\ last' = Op("MultiCall.__getattr__", 0, 0, NoReply, Ret(None))
    /\ UNCHANGED <<python, cfgVersion, version, history, exchanges, lastBody,
                   uuids, meth, view, iter>>

\* MultiCall._notify followed by MultiCallNotify.__getattr__
MultiCallNotifyGetattr(seg) ==
    /\ nextObj <= MaxJobs
    /\ jobList' = Enqueue(jobList, Job(nextObj, seg, TRUE))
    /\ nextObj' = nextObj + 1
    /\ last' = Op("MultiCallNotify.__getattr__", 0, 0, NoReply, Ret(None))
    /\ UNCHANGED <<python, cfgVersion, version, history, exchanges, lastBody,
                   uuids, meth, view, iter>>

\* Number of segments of a method name
Segs(name) == (Len(name.v) + 1) \div 2

\* MultiCallMethod.__getattr__, on the i-th job of the list
JobGetattr(i, seg) ==
    /\ i \in 1..Len(jobList)
    /\ Segs(jobList[i].method) < MaxPath
    /\ jobList' = [jobList EXCEPT ![i].method = DotFormat(@, seg)]
    /\ last' = Op("MultiCallMethod.__getattr__", 0, 0, NoReply, Ret(None))
    /\ UNCHANGED <<python, cfgVersion, version, history, exchanges, lastBody,
                   uuids, meth, nextObj, view, iter>>

\* MultiCallMethod.__call__, on the i-th job of the list
JobCall(i, args, kwargs) ==
    /\ i \in 1..Len(jobList)
    /\ IF Cardinality(DOMAIN kwargs) > 0 /\ Len(args) > 0
       THEN /\ last' = Op("MultiCallMethod.__call__", Len(args), Cardinality(DOMAIN kwargs),
                          NoReply, Raise("ProtocolError", Str("JSON-RPC does not support both positional and keyword arguments.")))
            /\ UNCHANGED jobList
       ELSE /\ jobList' = [jobList EXCEPT ![i].params =
                             IF Cardinality(DOMAIN kwargs) > 0 THEN Dict(kwargs) ELSE Tuple(args)]
            /\ last' = Op("MultiCallMethod.__call__", Len(args), Cardinality(DOMAIN kwargs),
                          NoReply, Ret(None))
    /\ UNCHANGED <<python, cfgVersion, version, history, exchanges, lastBody,
                   uuids, meth, nextObj, view, iter>>

\* A request that leaves the version out, so that dumps falls back on
\* config.version
JobRequestAtDefault(job, cfg, fresh) ==
    Dumps(job.params, job.method, FALSE, None, 0, job.notify, cfg, fresh)

\* MultiCallMethod.request: always built as version 2.0
JobRequest(job, cfg, fresh) ==
    Dumps(job.params, job.method, FALSE, None, 20, job.notify, cfg, fresh)

\* '[ %s ]' % ','.join(texts): the text of the array of what the texts denote
ArrayText(texts) == Text(List([i \in DOMAIN texts |-> texts[i].v]))

\* What a MultiCall invocation returned: nothing yet, None, or an iterator
NoView == [t |-> "noview"]
MultiCallIterator(results) == [t |-> "MultiCallIterator", results |-> results]

\* The caller drives no generator
NoIter == [state |-> "none"]

\* A job list that keeps its jobs across the exchange
NotCleared(list) == list

\* The job list after the exchange of MultiCall._request returned
Cleared(list) == <<>>

\* A job list that is cleared whether _run_request returned or raised
JobsAfterAlwaysCleared(list, responses) == Cleared(list)

\* The job list after the call of _run_request: "del self._job_list[:]" is
\* reached only when the call returned
JobsAfter(list, responses) ==
    IF Raised(responses) THEN list ELSE Cleared(list)

\* The value MultiCall._request returns when it finds no job
EmptyBatchResult == None

\* MultiCall._request
MultiCallRequest(reply) ==
    /\ IF Len(jobList) < 1
       THEN /\ view' = EmptyBatchResult
            /\ last' = BatchOp(0, NoReply, Ret(EmptyBatchResult))
            /\ iter' = NoIter
            /\ UNCHANGED <<history, exchanges, lastBody, uuids, jobList>>
       ELSE LET reqs == [i \in 1..Len(jobList) |->
                           JobRequest(jobList[i], cfgVersion, Uuid(uuids + i))]
                body == ArrayText([i \in 1..Len(jobList) |-> reqs[i].val])
                responses == RunRequest(body, reply)
            IN  IF \E i \in 1..Len(jobList) : Raised(reqs[i])
                THEN /\ last' = BatchOp(Len(jobList), NoReply,
                                  reqs[CHOOSE i \in 1..Len(jobList) : Raised(reqs[i])])
                     /\ UNCHANGED <<history, exchanges, lastBody, uuids, jobList,
                                    view, iter>>
                ELSE /\ exchanges < MaxExchanges
                     /\ uuids' = uuids + Len(jobList)
                     /\ history' = HistoryAfter(history, body, reply)
                     /\ exchanges' = exchanges + 1
                     /\ lastBody' = body
                     /\ IF Raised(responses)
                        THEN /\ last' = BatchOp(Len(jobList), reply, responses)
                             /\ jobList' = JobsAfter(jobList, responses)
                             /\ UNCHANGED <<view, iter>>
                        ELSE LET results == IF ~Truthy(responses.val) THEN List(<<>>)
                                            ELSE responses.val
                             IN  /\ jobList' = JobsAfter(jobList, responses)
                                 /\ view' = MultiCallIterator(results)
                                 /\ iter' = NoIter
                                 /\ last' = BatchOp(Len(jobList), reply,
                                                    Ret(MultiCallIterator(results)))
    /\ UNCHANGED <<python, cfgVersion, version, meth, nextObj>>

----------------------------------------------------------------------------
(* Batch result view: MultiCallIterator, applied to what the latest          *)
(* invocation of the engine returned                                        *)

\* The latest operation when it reads the result at an index
IndexOp(op, i, out) == [op |-> op, index |-> i, out |-> out]

\* A __getitem__ that classifies every element of the array before it reads
\* the one asked for
GetItemEager(results, i, py) ==
    LET item == Index(results, i)
        bad == IF results.t \in {"list", "tuple"}
               THEN { j \in 1..Len(results.v) : Raised(CheckForErrors(results.v[j], py)) }
               ELSE {}
    IN  IF bad # {} THEN CheckForErrors(results.v[CHOOSE j \in bad : TRUE], py)
        ELSE IF Raised(item) THEN item
        ELSE Subscript(item.val, "result")

\* MultiCallIterator.__getitem__
GetItem(results, i, py) ==
    LET item == Index(results, i)
    IN  IF Raised(item) THEN item
        ELSE LET chk == CheckForErrors(item.val, py)
             IN  IF Raised(chk) THEN chk ELSE Subscript(item.val, "result")

\* len(batch()): MultiCallIterator.__len__
ResultLen ==
    /\ view.t # "noview"
    /\ last' = Op("len", 0, 0, NoReply,
                  IF view.t = "MultiCallIterator" THEN PyLen(view.results)
                  ELSE Raise("TypeError", Str("object of type 'NoneType' has no len()")))
    /\ UNCHANGED <<python, cfgVersion, version, history, exchanges, lastBody, uuids,
                   meth, jobList, nextObj, view, iter>>

\* batch()[i]
ResultGetItem(i) ==
    /\ view.t # "noview"
    /\ last' = IndexOp("getitem", i,
                  IF view.t = "MultiCallIterator" THEN GetItem(view.results, i, python)
                  ELSE Raise("TypeError", Str("'NoneType' object is not subscriptable")))
    /\ UNCHANGED <<python, cfgVersion, version, history, exchanges, lastBody, uuids,
                   meth, jobList, nextObj, view, iter>>

\* iter(batch()): MultiCallIterator.__iter__ creates the generator; seen lists
\* the indices it has yielded
ResultIter ==
    /\ view.t # "noview"
    /\ IF view.t = "MultiCallIterator"
       THEN /\ iter' = [state |-> "active", i |-> 0, seen |-> <<>>]
            /\ last' = Op("iter", 0, 0, NoReply, Ret(None))
       ELSE /\ iter' = NoIter
            /\ last' = Op("iter", 0, 0, NoReply,
                          Raise("TypeError", Str("'NoneType' object is not iterable")))
    /\ UNCHANGED <<python, cfgVersion, version, history, exchanges, lastBody, uuids,
                   meth, jobList, nextObj, view>>

\* The end of the for loop of __iter__, "raise StopIteration" inside a
\* generator: the iteration ends, or, where PEP 479 is in force, the
\* generator raises RuntimeError to its caller
Stop == [kind |-> "stop"]
GeneratorEnd(py) ==
    IF py = "3.7" THEN Raise("RuntimeError", Str("generator raised StopIteration"))
    ELSE Stop

\* next() on the generator of MultiCallIterator.__iter__
ResultNext ==
    /\ iter.state = "active"
    /\ LET n == PyLen(view.results)
           out == IF Raised(n) THEN n
                  ELSE IF iter.i < n.val.v THEN GetItem(view.results, iter.i, python)
                  ELSE GeneratorEnd(python)
       IN  /\ last' = IndexOp("next", iter.i, out)
           /\ iter' = IF Returned(out)
                      THEN [iter EXCEPT !.i = @ + 1, !.seen = Append(@, iter.i)]
                      ELSE IF Raised(out) THEN [iter EXCEPT !.state = "raised"]
                      ELSE [iter EXCEPT !.state = "exhausted"]
    /\ UNCHANGED <<python, cfgVersion, version, history, exchanges, lastBody, uuids,
                   meth, jobList, nextObj, view>>

----------------------------------------------------------------------------
(* What the transport answers *)

\* A success response and an error response, as a server builds them
Success(result, rpcid, ver) == PayloadResponse(Payload(rpcid, ver, ver), result)
Failure(code, rpcid, ver) ==
    PayloadError(Payload(rpcid, ver, ver), PyInt(code), Str("Server error."))

\* Elements of a batch response array: two successes whose ids match no
\* request, an error and a value that is no envelope
Elements ==
    { Success(PyInt(53), Uuid(9), 20), Success(PyInt(5), Uuid(8), 10),
      Failure(-32600, Uuid(1), 20), PyInt(7) }

Arrays(S, n) == UNION { [1..k -> S] : k \in 0..n }

\* Answers to a single call
CallReplies ==
    { TransportRaises, Reply(EmptyText), Reply(GarbageText),
      Reply(Text(Success(PyInt(11), Uuid(1), 20))),
      Reply(Text(Failure(-32600, Uuid(1), 20))),
      Reply(Text(Failure(1, Uuid(1), 10))),
      Reply(Text(PyInt(7))), Reply(Text(EmptyDict)) }

ProxyReplies ==
    { TransportRaises, Reply(EmptyText), Reply(Text(Success(PyInt(11), Uuid(1), 20))) }

\* Answers to a batch
BatchReplies ==
    { TransportRaises, Reply(EmptyText), Reply(Text(List(<<Success(PyInt(53), Uuid(1), 20)>>))) }

ViewReplies ==
    { TransportRaises, Reply(EmptyText), Reply(GarbageText),
      Reply(Text(Success(PyInt(11), Uuid(1), 20))) }
    \cup { Reply(Text(List(a))) : a \in Arrays(Elements, MaxResp) }

----------------------------------------------------------------------------
(* Specifications *)

NoBody == [t |-> "nobody"]

\* The state after ServerProxy(uri) and MultiCall(server): version unset, so
\* that it defaults to config.version
InitState ==
    /\ exchanges = 0
    /\ lastBody = NoBody
    /\ uuids = 0
    /\ meth = NoMethod
    /\ jobList = <<>>
    /\ nextObj = 1
    /\ view = NoView
    /\ iter = NoIter
    /\ last = Op("init", 0, 0, NoReply, Ret(None))

\* A caller of the single-call proxy building method paths
InitProxy ==
    /\ cfgVersion \in Versions
    /\ version = cfgVersion
    /\ InitState
    /\ python = "3.7"
    /\ history = NoHistory

NextProxy ==
    \/ \E seg \in Segments : ServerProxyGetattr(seg)
    \/ \E seg \in Segments : NotifyGetattr(seg)
    \/ \E seg \in Segments : MethodGetattr(seg)
    \/ MethodGetName
    \/ \E args \in ArgLists, kwargs \in KwargMaps, reply \in ProxyReplies :
          MethodCall(args, kwargs, reply)

SpecProxy == InitProxy /\ [][NextProxy]_vars

\* A caller of the single-call proxy calling one method with every shape of
\* argument list, the proxy built with or without a history
InitCall ==
    /\ cfgVersion \in Versions
    /\ version = cfgVersion
    /\ InitState
    /\ python = "3.7"
    /\ history \in {NoHistory, EmptyHistory}

NextCall ==
    \/ ServerProxyGetattr("a")
    \/ NotifyGetattr("a")
    \/ \E args \in ArgLists, kwargs \in KwargMaps, reply \in ProxyReplies :
          MethodCall(args, kwargs, reply)

SpecCall == InitCall /\ [][NextCall]_vars

\* A caller of the single-call proxy calling one method, against every answer
\* of the transport
InitNotify ==
    /\ cfgVersion \in Versions
    /\ version = cfgVersion
    /\ InitState
    /\ python \in Interpreters
    /\ history = NoHistory

NextNotify ==
    \/ ServerProxyGetattr("a")
    \/ NotifyGetattr("a")
    \/ \E args \in ArgLists, kwargs \in KwargMaps, reply \in CallReplies :
          MethodCall(args, kwargs, reply)

SpecNotify == InitNotify /\ [][NextNotify]_vars

\* A caller of the batch engine creating jobs and sending them
InitBatch ==
    /\ cfgVersion \in Versions
    /\ version = cfgVersion
    /\ InitState
    /\ python = "3.7"
    /\ history = NoHistory

NextBatch ==
    \/ \E seg \in Segments : MultiCallGetattr(seg)
    \/ \E seg \in Segments : MultiCallNotifyGetattr(seg)
    \/ \E reply \in BatchReplies : MultiCallRequest(reply)

SpecBatch == InitBatch /\ [][NextBatch]_vars

\* A caller of the batch engine over a proxy built with any version
\* (ServerProxy(uri, version=v)), under any default version
InitBatchVersions ==
    /\ cfgVersion \in Versions
    /\ version \in Versions
    /\ InitState
    /\ python = "3.7"
    /\ history = NoHistory

SpecBatchVersions == InitBatchVersions /\ [][NextBatch]_vars

\* Answers to a batch whose jobs the caller invokes
JobReplies == { TransportRaises, Reply(EmptyText) }

\* A caller of the batch engine creating jobs and invoking them, or not,
\* with every shape of argument list, before it sends them
InitJob ==
    /\ cfgVersion = 20
    /\ version = cfgVersion
    /\ InitState
    /\ python = "3.7"
    /\ history = NoHistory

NextJob ==
    \/ MultiCallGetattr("a")
    \/ \E i \in 1..MaxJobs, args \in ArgLists, kwargs \in KwargMaps : JobCall(i, args, kwargs)
    \/ \E reply \in JobReplies : MultiCallRequest(reply)

SpecJob == InitJob /\ [][NextJob]_vars

\* A caller of the batch engine invoking it once and reading what it returned
InitView ==
    /\ cfgVersion = 20
    /\ version = cfgVersion
    /\ InitState
    /\ python \in Interpreters
    /\ history = NoHistory

NextView ==
    \/ view.t = "noview" /\ MultiCallGetattr("a")
    \/ \E reply \in ViewReplies : view.t = "noview" /\ MultiCallRequest(reply)
    \/ ResultLen
    \/ \E i \in 0..MaxResp : ResultGetItem(i)
    \/ ResultIter
    \/ ResultNext

SpecView == InitView /\ [][NextView]_vars

\* A mapping built from optional members: the keys whose value is Absent
\* are left out
Absent == [t |-> "absent"]
Mapping(f) == Dict([k \in { j \in DOMAIN f : f[j] # Absent } |-> f[k]])

\* Error members of a response: objects with a code at, next to and away
\* from the bounds of the reserved range, with and without message, trace
\* and data; objects without a code; values that are no object
ErrorCodes == {-32701, -32700, -32600, -32000, -31999, 1}
ErrorObjects ==
    { Mapping(("code" :> PyInt(c)) @@ ("message" :> m) @@ ("trace" :> t) @@ ("data" :> d)) :
        c \in ErrorCodes, m \in {Absent, Str("m")}, t \in {Absent, Str("t")},
        d \in {Absent, PyInt(9)} }
ErrorMembers ==
    ErrorObjects
    \cup { Absent, None, EmptyDict, Str("boom"), PyInt(5), Dict("reason" :> Str("r")),
           Dict(("reason" :> Str("r")) @@ ("detail" :> Str("d"))) }

\* The jsonrpc member of a response: absent, a version as a string or as a
\* number, a string that is no number, null
VersionMembers ==
    { Absent, Str("1.0"), Str("2.0"), Str("3.0"), PyInt(2), PyInt(3), Str("abc"), None }

\* Values handed to the classifier
ClassifierInputs ==
    { Mapping(("jsonrpc" :> j) @@ ("result" :> r) @@ ("error" :> e) @@ ("id" :> Uuid(1))) :
        j \in VersionMembers, r \in {Absent, None, PyInt(11)}, e \in ErrorMembers }
    \cup { None, EmptyDict, PyInt(0), PyInt(7), Str(""), Str("ok"), List(<<>>),
           List(<<PyInt(1)>>) }

\* A caller of the classifier
InitClassify ==
    /\ cfgVersion = 20
    /\ version = cfgVersion
    /\ InitState
    /\ python \in Interpreters
    /\ history = NoHistory

NextClassify == \E result \in ClassifierInputs : Classify(result)

SpecClassify == InitClassify /\ [][NextClassify]_vars

\* Values handed to isbatch: sequences of up to two elements whose first
\* element is a mapping with every kind of jsonrpc member, or no mapping;
\* values that are no sequence
FirstElements ==
    { Mapping(("jsonrpc" :> j) @@ ("result" :> r)) :
        j \in VersionMembers \cup {Str("1.1"), PyInt(1)}, r \in {Absent, PyInt(11)} }
    \cup { PyInt(7), None, Str("2.0"), List(<<>>) }
BatchCandidates ==
    LET seqs == {<<>>} \cup { <<e>> : e \in FirstElements }
                \cup { <<e, f>> : e \in FirstElements,
                                  f \in {PyInt(7), Mapping("jsonrpc" :> Str("2.0"))} }
    IN  { List(q) : q \in seqs } \cup { Tuple(q) : q \in seqs }
        \cup { None, PyInt(2), Str("2.0"), Mapping("jsonrpc" :> Str("2.0")), EmptyDict }

\* A caller of isbatch
InitIsBatch ==
    /\ cfgVersion = 20
    /\ version = cfgVersion
    /\ InitState
    /\ python = "3.7"
    /\ history = NoHistory

NextIsBatch == \E result \in BatchCandidates : IsBatchCalled(result)

SpecIsBatch == InitIsBatch /\ [][NextIsBatch]_vars

\* Arguments of dump: params of every valid type, empty and not, and of
\* types that are not valid; a method name or none; an id that is missing,
\* falsy or not; a version that is missing (0) or given; the two flags
Faults == { Fault(PyInt(-32000), Str("Server error"), r) : r \in {None, PyInt(4)} }
BuildParams ==
    { Tuple(<<>>), Tuple(<<PyInt(1)>>), EmptyDict, Dict("k" :> PyInt(1)),
      Fault(PyInt(-32000), Str("Server error"), None), PyInt(5), Str("x"), None }
MethodNames == { None, Name(<<"a">>) }
RpcIds == { None, PyInt(0), Str(""), PyInt(3) }
VersionArgs == {0} \cup Versions

\* A caller of dump and of Fault.dump / Fault.response
InitBuild ==
    /\ cfgVersion \in Versions
    /\ version = cfgVersion
    /\ InitState
    /\ python = "3.7"
    /\ history = NoHistory

NextBuild ==
    \/ \E params \in BuildParams, methodname \in MethodNames, rpcid \in RpcIds,
          ver \in VersionArgs, isResponse \in BOOLEAN, isNotify \in BOOLEAN :
          DumpCalled(params, methodname, rpcid, ver, isResponse, isNotify)
    \/ \E f \in Faults, rpcid \in RpcIds, ver \in VersionArgs :
          FaultDumpCalled(f, rpcid, ver)
    \/ \E f \in Faults, rpcid \in RpcIds, ver \in VersionArgs :
          FaultResponseCalled(f, rpcid, ver)

SpecBuild == InitBuild /\ [][NextBuild]_vars

\* Requests sent on a round trip: a plain and a dotted method name, params
\* that is a sequence or a mapping, empty, flat or nested
TripNames == { Name(<<"a">>), Name(<<"a", ".", "b">>) }
TripParams ==
    { Tuple(<<>>), Tuple(<<PyInt(1)>>), List(<<PyInt(1), Str("x")>>), EmptyDict,
      Dict("k" :> PyInt(1)), Tuple(<<Tuple(<<PyInt(1)>>), PyInt(2)>>) }

\* A caller taking requests through dumps, loads and check_for_errors
InitRoundTrip ==
    /\ cfgVersion \in Versions
    /\ version = cfgVersion
    /\ InitState
    /\ python = "3.7"
    /\ history = NoHistory

NextRoundTrip ==
    \E methodname \in TripNames, params \in TripParams,
       rpcid \in RpcIds \cup {Str("x")}, ver \in VersionArgs :
       RoundTrip(methodname, params, rpcid, ver)

SpecRoundTrip == InitRoundTrip /\ [][NextRoundTrip]_vars

\* A caller making single calls and batch calls through one proxy that was
\* built with a history
InitHistory ==
    /\ cfgVersion = 20
    /\ version = cfgVersion
    /\ InitState
    /\ python = "3.7"
    /\ history = EmptyHistory

NextHistory ==
    \/ ServerProxyGetattr("a")
    \/ \E args \in ArgLists, kwargs \in KwargMaps, reply \in ProxyReplies :
          MethodCall(args, kwargs, reply)
    \/ MultiCallGetattr("a")
    \/ \E reply \in BatchReplies : MultiCallRequest(reply)

SpecHistory == InitHistory /\ [][NextHistory]_vars

----------------------------------------------------------------------------
(* Properties of the batch engine *)

IsBatchCall(op) == op.op = "MultiCall.__call__"

\* env is the envelope of job: a version 2.0 request or notification with
\* the job's method and arguments
EnvelopeOf(env, job) ==
    /\ env.t = "dict"
    /\ Has(env, "method") /\ env.v["method"] = job.method
    /\ Has(env, "jsonrpc") /\ env.v["jsonrpc"] = Str("2.0")
    /\ Has(env, "id") <=> ~job.notify
    /\ Has(env, "params") <=> Truthy(job.params)
    /\ Has(env, "params") => env.v["params"] = JValue(job.params)

\* body is the text of one array holding the envelopes of jobs, in order
BodyOf(body, jobs) ==
    /\ body.t = "text" /\ body.v.t = "list"
    /\ Len(body.v.v) = Len(jobs)
    /\ \A i \in 1..Len(jobs) : EnvelopeOf(body.v.v[i], jobs[i])

\* C1: an invocation of the engine that finds n >= 1 jobs performs exactly
\* one transport exchange, whose body is one array of the n jobs' envelopes,
\* and leaves the job list empty when it returns; an invocation that finds
\* the list empty (as a repeated invocation does) performs no exchange.
C1_OneExchangeThenEmpty ==
    [][ /\ (IsBatchCall(last') /\ Len(jobList) >= 1) =>
              /\ exchanges' = exchanges + 1
              /\ BodyOf(lastBody', jobList)
              /\ Returned(last'.out) => jobList' = <<>>
        /\ (IsBatchCall(last') /\ Len(jobList) = 0) =>
              /\ exchanges' = exchanges
              /\ lastBody' = lastBody ]_vars

\* C1 witness: a batch of two jobs was exchanged and returned, and the engine
\* was invoked again at once
C1_Witness ==
    /\ IsBatchCall(last) /\ last.njobs = 0
    /\ exchanges = 1
    /\ lastBody # NoBody /\ Len(lastBody.v.v) = 2
    /\ jobList = <<>>

\* C2: an invocation of the engine that finds the job list empty performs no
\* transport exchange and yields an empty result set: a view of length 0.
C2_EmptyBatchYieldsEmptyView ==
    (IsBatchCall(last) /\ last.njobs = 0) =>
        /\ last.reply = NoReply
        /\ view.t = "MultiCallIterator"
        /\ PyLen(view.results) = Ret(PyInt(0))

\* C3: every attribute access on the engine or on its _notify namespace puts
\* one new job behind the jobs already pending, and the batch array holds
\* the envelopes of the pending jobs in that order, none dropped, duplicated
\* or moved.
C3_SubmissionOrderPreserved ==
    [][ /\ last'.op \in {"MultiCall.__getattr__", "MultiCallNotify.__getattr__"} =>
              /\ Len(jobList') = Len(jobList) + 1
              /\ SubSeq(jobList', 1, Len(jobList)) = jobList
              /\ jobList'[Len(jobList')].obj = nextObj
              /\ jobList'[Len(jobList')].notify = (last'.op = "MultiCallNotify.__getattr__")
        /\ (IsBatchCall(last') /\ exchanges' # exchanges) => BodyOf(lastBody', jobList)
      ]_vars

\* C3 witness: a batch of a notification b followed by a request a was sent
C3_Witness ==
    /\ lastBody # NoBody /\ Len(lastBody.v.v) = 2
    /\ ~Has(lastBody.v.v[1], "id") /\ lastBody.v.v[1].v["method"] = Name(<<"b">>)
    /\ Has(lastBody.v.v[2], "id") /\ lastBody.v.v[2].v["method"] = Name(<<"a">>)

----------------------------------------------------------------------------
(* Properties of the batch result view *)

\* e is a success envelope: a mapping with a result and no error
IsSuccess(e) ==
    /\ e.t = "dict"
    /\ Has(e, "result")
    /\ ~Has(e, "error") \/ e.v["error"] = None
    /\ Has(e, "jsonrpc") => e.v["jsonrpc"] = Str("2.0")

\* The latest invocation of the engine returned a view of a response array
HasArrayView == view.t = "MultiCallIterator" /\ view.results.t = "list"

ReadsIndex(op) == op.op \in {"getitem", "next"}

\* C4: whatever array the transport answers with, the invocation returns a
\* view of it without raising; reading an index inside the array returns the
\* element's result when that element is a success and raises when it is
\* not, whatever the other elements are; reading an index the array lacks
\* raises IndexError; taking the length never raises.
C4_LazyPerPosition ==
    /\ (IsBatchCall(last) /\ last.reply.k = "reply" /\ last.reply.text.v.t = "list") =>
          /\ Returned(last.out)
          /\ view = MultiCallIterator(last.reply.text.v)
    /\ (HasArrayView /\ ReadsIndex(last) /\ last.index < Len(view.results.v)) =>
          LET e == view.results.v[last.index + 1]
          IN  /\ IsSuccess(e) => last.out = Ret(e.v["result"])
              /\ ~IsSuccess(e) => Raised(last.out)
    /\ (HasArrayView /\ last.op = "getitem" /\ last.index >= Len(view.results.v)) =>
          /\ Raised(last.out)
          /\ last.out.exc = "IndexError"
    /\ (HasArrayView /\ last.op = "len") => Returned(last.out)

\* C4 witness: index 1 of a two-element array whose element 0 is an error
\* was read and returned 53
C4_Witness ==
    /\ HasArrayView /\ Len(view.results.v) = 2
    /\ ~IsSuccess(view.results.v[1])
    /\ last.op = "getitem" /\ last.index = 1
    /\ last.out = Ret(PyInt(53))

\* C5: the view of an array R of success envelopes has length |R| and its
\* element i is R[i].result, whatever the ids of the envelopes.
C5_PositionalResults ==
    (HasArrayView /\ \A k \in 1..Len(view.results.v) : IsSuccess(view.results.v[k])) =>
        /\ last.op = "len" => last.out = Ret(PyInt(Len(view.results.v)))
        /\ (ReadsIndex(last) /\ last.index < Len(view.results.v)) =>
              last.out = Ret(view.results.v[last.index + 1].v["result"])

\* C5 witness: the responses with results 53 and 5 were read as [53, 5]
C5_Witness ==
    /\ HasArrayView /\ Len(view.results.v) = 2
    /\ IsSuccess(view.results.v[1]) /\ IsSuccess(view.results.v[2])
    /\ view.results.v[1].v["result"] = PyInt(53)
    /\ view.results.v[2].v["result"] = PyInt(5)
    /\ iter.state = "active" /\ iter.seen = <<0, 1>>
    /\ last.op = "next" /\ last.out = Ret(PyInt(5))

\* C6: iterating a view whose elements are all successes yields the indices
\* 0..n-1 in increasing order and then ends without raising.
C6_IterationEndsNormally ==
    (/\ HasArrayView
     /\ \A k \in 1..Len(view.results.v) : IsSuccess(view.results.v[k])
     /\ iter.state \in {"exhausted", "raised"}) =>
        /\ iter.state = "exhausted"
        /\ iter.seen = [k \in 1..Len(view.results.v) |-> k - 1]

----------------------------------------------------------------------------
(* Properties of the single-call proxy *)

IsMethodCall(op) == op.op = "_Method.__call__"

IsAttributeAccess(op) ==
    op.op \in {"ServerProxy.__getattr__", "_Notify.__getattr__",
               "_Method.__getattr__", "_Method.__name__"}

\* The latest operation is a call that reached the transport
Exchanged(op) == IsMethodCall(op) /\ op.reply # NoReply

\* s1.s2...sn as a string: the segments with a "." between neighbours
DottedPath(segs) ==
    [k \in 1..(2 * Len(segs) - 1) |-> IF k % 2 = 1 THEN segs[(k + 1) \div 2] ELSE "."]

\* C7: a call with at least one positional and at least one keyword argument
\* raises ProtocolError and leaves the transport, the history, the latest
\* request body and the id generator as they were.
C7_BothShapesFailFirst ==
    [][ (IsMethodCall(last') /\ last'.nargs > 0 /\ last'.nkwargs > 0) =>
            /\ Raised(last'.out) /\ last'.out.exc = "ProtocolError"
            /\ last'.reply = NoReply
            /\ exchanges' = exchanges
            /\ history' = history
            /\ lastBody' = lastBody
            /\ uuids' = uuids ]_vars

\* C7 witness: on a proxy with a history that has already made one exchange,
\* a call with both kinds of argument failed
C7_Witness ==
    /\ IsMethodCall(last) /\ last.nargs > 0 /\ last.nkwargs > 0
    /\ Raised(last.out)
    /\ history.t = "history" /\ Len(history.v) = 2
    /\ exchanges = 1

\* C8: attribute accesses make no transport exchange; a call that passes the
\* argument test makes exactly one, and the method of its envelope is the
\* dotted path of the segments accessed, in access order.
C8_PathThenOneExchange ==
    [][ /\ IsAttributeAccess(last') =>
              /\ exchanges' = exchanges
              /\ lastBody' = lastBody
        /\ (IsMethodCall(last') /\ ~(last'.nargs > 0 /\ last'.nkwargs > 0)) =>
              /\ exchanges' = exchanges + 1
              /\ lastBody'.v.t = "dict"
              /\ lastBody'.v.v["method"] = Name(DottedPath(meth.path)) ]_vars

\* C8 witness: a then b were accessed and the call sent method "a.b"
C8_Witness ==
    /\ Exchanged(last)
    /\ meth.t = "method" /\ meth.path = <<"a", "b">>
    /\ lastBody.v.v["method"] = Name(<<"a", ".", "b">>)

\* C9: once a method reference has been invoked, no attribute access on that
\* reference changes its pending method name.
C9_InvokedIsTerminal ==
    [][ (/\ meth.t = "method" /\ meth.invoked
         /\ meth'.t = "method" /\ meth'.invoked) => meth'.name = meth.name ]_vars

\* The latest operation is a call through the notification namespace that
\* reached the transport
NotifyExchanged == Exchanged(last) /\ meth.send = "_request_notify"

\* C10, as claimed: a call through the notification namespace sends a
\* notification envelope, returns no value, and raises nothing but a failure
\* of the transport, whatever the transport answers.
C10_NotifyRaisesOnlyTransportFailure ==
    NotifyExchanged =>
        /\ IsNotification(lastBody.v)
        /\ Returned(last.out) => last.out.val = None
        /\ Raised(last.out) => (last.reply = TransportRaises /\ last.out.exc = "TransportError")

\* What the classifier lets through: a falsy value, or a mapping of a
\* version up to 2.0 that has a result or an error member and no truthy error
Accepted(x) ==
    \/ ~Truthy(x)
    \/ /\ x.t = "dict"
       /\ Has(x, "jsonrpc") => (0 <= ToFloat(x.v["jsonrpc"]) /\ ToFloat(x.v["jsonrpc"]) <= 20)
       /\ Has(x, "result") \/ Has(x, "error")
       /\ Has(x, "error") => ~Truthy(x.v["error"])

\* The answers a notification call ignores: no text, or the text of a value
\* the classifier lets through (a success response, for one)
IgnoredByNotify(reply) ==
    /\ reply.k = "reply"
    /\ reply.text # GarbageText
    /\ reply.text = EmptyText \/ Accepted(reply.text.v)

\* C10, as amended: a call through the notification namespace sends a
\* notification envelope and returns no value; it raises the transport's
\* failure when the transport fails, returns when the transport answers with
\* no text or with a value the classifier lets through (a success response,
\* an empty value), and raises a decoding or classification error when the
\* transport answers with anything else (text that is no JSON, a truthy
\* value that is no mapping, an error response).
C10_NotifyClassifiesTheAnswer ==
    NotifyExchanged =>
        /\ IsNotification(lastBody.v)
        /\ Returned(last.out) => last.out.val = None
        /\ last.reply = TransportRaises => last.out = Raise("TransportError", None)
        /\ IgnoredByNotify(last.reply) => last.out = Ret(None)
        /\ (last.reply # TransportRaises /\ ~IgnoredByNotify(last.reply)) =>
              (Raised(last.out) /\ last.out.exc # "TransportError")

\* C10 witness: a notification was sent and the transport answered with no text
C10_Witness ==
    /\ NotifyExchanged
    /\ last.reply = Reply(EmptyText)
    /\ last.out = Ret(None)

----------------------------------------------------------------------------
(* Properties of the history *)

\* The entries one exchange adds to the history: the body handed to the
\* transport, then the text the transport answered with, if it answered
EntriesOf(body, reply) ==
    <<[dir |-> "request", text |-> body]>>
    \o (IF reply.k = "reply" THEN <<[dir |-> "response", text |-> reply.text]>> ELSE <<>>)

\* C11: a proxy built with a history records, for every exchange, single or
\* batch, the body handed to the transport and then the response it
\* received, behind everything recorded before; a step that makes no
\* exchange leaves the history as it was. So the k-th recorded request is
\* the k-th body sent, each response sits between its request and the next
\* request, and nothing is dropped or reordered.
C11_HistoryInCallOrder ==
    [][ /\ exchanges' = exchanges => history' = history
        /\ exchanges' # exchanges =>
              /\ history'.t = "history"
              /\ history'.v = history.v \o EntriesOf(lastBody', last'.reply) ]_vars

\* C11 witness: a batch exchange answered with no text, then a single
\* exchange, left four entries in call order
C11_Witness ==
    /\ history.t = "history" /\ Len(history.v) = 4
    /\ history.v[1].dir = "request" /\ history.v[1].text.v.t = "list"
    /\ history.v[2] = [dir |-> "response", text |-> EmptyText]
    /\ history.v[3] = [dir |-> "request", text |-> lastBody]
    /\ history.v[3].text.v.t = "dict"
    /\ history.v[4].dir = "response"

----------------------------------------------------------------------------
(* Properties of the error classifier *)

IsClassify(op) == op.op = "check_for_errors"

\* The jsonrpc member of x is there and is more than 2.0
NewerVersion(x) == Has(x, "jsonrpc") /\ ToFloat(x.v["jsonrpc"]) > 20

\* The jsonrpc member of x is there and float() does not take it
BadVersion(x) == Has(x, "jsonrpc") /\ ToFloat(x.v["jsonrpc"]) = -1

Unsupported(out) == Raised(out) /\ out.exc = "NotImplementedError"
Invalid(out) ==
    out = Raise("ValueError", Str("Response does not have a result or error key."))

\* Rules 3 to 5 of the classifier, for a mapping x that passed the version rule
LaterRules(x, out) ==
    IF ~Has(x, "result") /\ ~Has(x, "error") THEN Invalid(out)
    ELSE IF Has(x, "error") /\ Truthy(x.v["error"]) THEN Raised(out)
    ELSE out = Ret(x)

\* C12, as claimed: on every non-empty input the first rule that matches
\* decides: a value that is no mapping raises TypeError; else a jsonrpc
\* member above 2.0 raises the unsupported-version error; else a mapping
\* with neither result nor error is rejected as invalid; else a truthy error
\* raises; otherwise the input is returned as it is.
C12_FirstMatchWins ==
    (IsClassify(last) /\ Truthy(last.arg)) =>
        IF last.arg.t # "dict" THEN Raised(last.out) /\ last.out.exc = "TypeError"
        ELSE IF NewerVersion(last.arg) THEN Unsupported(last.out)
        ELSE LaterRules(last.arg, last.out)

\* C12, as amended: the same order of rules, with one more case between the
\* first and the second: a jsonrpc member that is no number raises the
\* error of the conversion (ValueError or TypeError), whatever the other
\* members are.
C12_FirstMatchWinsOnNumbers ==
    (IsClassify(last) /\ Truthy(last.arg)) =>
        IF last.arg.t # "dict" THEN Raised(last.out) /\ last.out.exc = "TypeError"
        ELSE IF BadVersion(last.arg)
        THEN Raised(last.out) /\ last.out.exc \in {"ValueError", "TypeError"}
             /\ ~Invalid(last.out)
        ELSE IF NewerVersion(last.arg) THEN Unsupported(last.out)
        ELSE LaterRules(last.arg, last.out)

\* C12 witness: a mapping of version 3.0 with neither result nor error was
\* refused for its version
C12_Witness ==
    /\ IsClassify(last) /\ last.arg.t = "dict"
    /\ NewerVersion(last.arg)
    /\ ~Has(last.arg, "result") /\ ~Has(last.arg, "error")
    /\ Unsupported(last.out)

\* x passes the first three rules and its error member is an object with a code
HasCodedError(x) ==
    /\ x.t = "dict" /\ ~BadVersion(x) /\ ~NewerVersion(x)
    /\ Has(x, "error") /\ x.v["error"].t = "dict" /\ Has(x.v["error"], "code")
    /\ x.v["error"].v["code"].t = "int"

\* C13: a response whose error has an integer code raises ProtocolError
\* carrying (code, message) when -32700 <= code <= -32000 and AppError
\* carrying (code, message, data) otherwise; message is the error's message
\* if it has one, else its trace if it has one, else a placeholder.
C13_ReservedRangeInclusive ==
    (IsClassify(last) /\ HasCodedError(last.arg)) =>
        LET e == last.arg.v["error"]
            code == e.v["code"]
            message == IF Has(e, "message") THEN e.v["message"]
                       ELSE IF Has(e, "trace") THEN e.v["trace"]
                       ELSE Str("<no error message>")
            data == IF Has(e, "data") THEN e.v["data"] ELSE None
        IN  IF -32700 <= code.v /\ code.v <= -32000
            THEN last.out = Raise("ProtocolError", Tuple(<<code, message>>))
            ELSE last.out = Raise("AppError", Tuple(<<code, message, data>>))

\* C13 witness: code -32700, the lower bound, with a trace and no message,
\* raised ProtocolError carrying the trace
C13_Witness ==
    /\ IsClassify(last) /\ HasCodedError(last.arg)
    /\ last.out = Raise("ProtocolError", Tuple(<<PyInt(-32700), Str("t")>>))

----------------------------------------------------------------------------
(* Properties of isbatch *)

\* x is a non-empty list or tuple whose first element is a mapping with a
\* jsonrpc member
VersionedSequence(x) ==
    /\ x.t \in {"list", "tuple"} /\ Len(x.v) >= 1
    /\ x.v[1].t = "dict" /\ Has(x.v[1], "jsonrpc")

\* x is such a sequence and the jsonrpc member is a number of at least 2.0
BatchShaped(x) == VersionedSequence(x) /\ ToFloat(x.v[1].v["jsonrpc"]) >= 20

\* C14, as claimed: isbatch returns true when its argument is a non-empty
\* list or tuple whose first element is a mapping with a jsonrpc member that
\* is a number of at least 2.0, and returns false for every other value.
C14_IsBatchTotal ==
    last.op = "isbatch" =>
        last.out = Ret(PyBool(BatchShaped(last.arg)))

\* C14, as amended: as claimed, but for a sequence whose first element is a
\* mapping with a jsonrpc member that is no number: isbatch raises there,
\* ProtocolError when the member is a string, TypeError when it is not.
C14_IsBatchRaisesOnBadVersion ==
    last.op = "isbatch" =>
        IF VersionedSequence(last.arg) /\ ToFloat(last.arg.v[1].v["jsonrpc"]) = -1
        THEN /\ Raised(last.out)
             /\ last.out.exc = IF last.arg.v[1].v["jsonrpc"].t = "str"
                               THEN "ProtocolError" ELSE "TypeError"
        ELSE last.out = Ret(PyBool(BatchShaped(last.arg)))

\* C14 witness: a tuple whose first element has jsonrpc "2.0" and whose
\* second element is no mapping was recognised as a batch
C14_Witness ==
    /\ last.op = "isbatch"
    /\ last.arg.t = "tuple" /\ Len(last.arg.v) = 2
    /\ VersionedSequence(last.arg)
    /\ last.arg.v[1].v["jsonrpc"] = Str("2.0")
    /\ last.arg.v[2] = PyInt(7)
    /\ last.out = Ret(PyBool(TRUE))

----------------------------------------------------------------------------
(* Properties of the payload builder *)

IsDump(op) == op.op = "dump"
IsBuild(op) == op.op \in {"dump", "Fault.dump", "Fault.response"}

\* The version a build works with: the one given, else config.version
VersionOf(op) == IF op.version = 0 THEN cfgVersion ELSE op.version

\* The envelope a build returned (Fault.response returns it as a text)
EnvelopeBuilt(op) == IF op.op = "Fault.response" THEN op.out.val.v ELSE op.out.val

\* The build is one of a request or of a notification: a method name is
\* given, the response flag is not set and params is no Fault
BuildsCall(op) ==
    /\ IsDump(op) /\ IsStringType(op.methodname)
    /\ ~op.isResponse /\ op.params.t # "fault"

\* The build is one of an error response: params is a Fault
BuildsError(op) == IsBuild(op) /\ op.params.t = "fault"

\* The build is one of a success response
BuildsSuccess(op) == IsDump(op) /\ op.isResponse /\ op.params.t # "fault"

\* C15: with a method name, params of a valid type and any version, a build
\* returns an envelope; when the notify flag is set it is a notification
\* (without an id key at version 2.0, with id null at versions 1.0 and 1.1)
\* and when the flag is not set it is a request, whose id is not null;
\* isnotification is true of the first and false of the second.
C15_NotifyFlagDecidesKind ==
    BuildsCall(last) =>
        /\ ValidParams(last.params) => Returned(last.out)
        /\ Returned(last.out) =>
              LET env == last.out.val
              IN  IF last.isNotify
                  THEN /\ IsNotification(env)
                       /\ VersionOf(last) >= 20 => ~Has(env, "id")
                       /\ VersionOf(last) < 20 => (Has(env, "id") /\ env.v["id"] = None)
                  ELSE /\ ~IsNotification(env)
                       /\ Has(env, "id") /\ env.v["id"] # None

\* C15 witness: a version 1.1 notification built with an id of 3 came out
\* with id null
C15_Witness ==
    /\ BuildsCall(last) /\ last.isNotify /\ last.rpcid = PyInt(3)
    /\ VersionOf(last) = 11
    /\ Returned(last.out) /\ last.out.val.v["id"] = None

\* The keys of a request or notification of version v with the given params
CallKeys(v, params) ==
    {"method"} \cup (IF ~Truthy(params) /\ v >= 11 THEN {} ELSE {"params"})
               \cup (IF v >= 20 THEN {"jsonrpc"} ELSE {})

\* C16: the keys of every envelope built match the version table. jsonrpc
\* is there, as "2.0", exactly at version 2.0; a request or notification
\* leaves params out exactly when params is empty and the version is at
\* least 1.1; a success response is {result, id, error: null} below 2.0 and
\* {result, id, jsonrpc} at 2.0; an error response is {result: null, id,
\* error} below 2.0 and {error, id, jsonrpc} at 2.0.
C16_KeysMatchVersionTable ==
    (IsBuild(last) /\ Returned(last.out)) =>
        LET env == EnvelopeBuilt(last)
            v == VersionOf(last)
            keys == DOMAIN env.v
        IN  /\ Has(env, "jsonrpc") <=> v >= 20
            /\ Has(env, "jsonrpc") => env.v["jsonrpc"] = Str("2.0")
            /\ BuildsCall(last) => keys \ {"id"} = CallKeys(v, last.params)
            /\ BuildsSuccess(last) =>
                  IF v < 20
                  THEN keys = {"result", "id", "error"} /\ env.v["error"] = None
                  ELSE keys = {"result", "id", "jsonrpc"}
            /\ BuildsError(last) =>
                  IF v < 20
                  THEN /\ keys = {"result", "id", "error"}
                       /\ env.v["result"] = None /\ env.v["error"].t = "dict"
                  ELSE keys = {"error", "id", "jsonrpc"} /\ env.v["error"].t = "dict"

\* C16 witness: a request with an empty mapping for params was built at the
\* default version 1.1 and came out as {id, method}
C16_Witness ==
    /\ BuildsCall(last) /\ ~last.isNotify /\ Returned(last.out)
    /\ last.version = 0 /\ cfgVersion = 11
    /\ last.params = EmptyDict
    /\ DOMAIN last.out.val.v = {"id", "method"}

\* C17: a build with a method name and params that is no tuple, list, dict
\* or Fault raises TypeError and returns no envelope.
C17_BadParamsRejected ==
    (IsDump(last) /\ IsStringType(last.methodname) /\ ~ValidParams(last.params)) =>
        /\ Raised(last.out)
        /\ last.out.exc = "TypeError"

C19_SuppliedIdKept ==
    [][ (BuildsCall(last') /\ ~last'.isNotify /\ Returned(last'.out)) =>
            IF last'.rpcid = None
            THEN last'.out.val.v["id"].t = "uuid" /\ uuids' = uuids + 1
            ELSE last'.out.val.v["id"] = last'.rpcid /\ uuids' = uuids ]_vars

----------------------------------------------------------------------------
(* Properties of the round trip *)

IsTrip(op) == op.op = "roundtrip"

\* x and y hold the same items: sequences of equal length whose items do,
\* whether tuple or list, mappings with the same keys whose values do, or
\* equal values
RECURSIVE SameItems(_, _)
SameItems(x, y) ==
    IF x.t \in {"tuple", "list"}
    THEN /\ y.t \in {"tuple", "list"} /\ Len(x.v) = Len(y.v)
         /\ \A i \in 1..Len(x.v) : SameItems(x.v[i], y.v[i])
    ELSE IF x.t = "dict"
    THEN /\ y.t = "dict" /\ DOMAIN x.v = DOMAIN y.v
         /\ \A k \in DOMAIN x.v : SameItems(x.v[k], y.v[k])
    ELSE x = y

\* m and p are recovered from the envelope env of version v: the method is
\* m, and params holds the items of p or is left out for an empty p
Recovered(env, m, p, v) ==
    /\ env.t = "dict"
    /\ Has(env, "method") /\ env.v["method"] = m
    /\ Has(env, "params") => SameItems(p, env.v["params"])
    /\ ~Has(env, "params") => (~Truthy(p) /\ v >= 11)

----------------------------------------------------------------------------
(* Properties of a batch whose exchange fails *)

\* C21: when the transport fails during an invocation of the engine, the
\* invocation raises the transport's failure and the job list stays as it
\* was; jobs accessed afterwards go behind it, and every exchange, the next
\* one too, sends the envelopes of the whole list in order.
C21_FailedBatchKeepsJobs ==
    [][ /\ (IsBatchCall(last') /\ last'.reply = TransportRaises) =>
              /\ last'.out = Raise("TransportError", None)
              /\ jobList # <<>>
              /\ jobList' = jobList
        /\ last'.op = "MultiCall.__getattr__" =>
              SubSeq(jobList', 1, Len(jobList)) = jobList
        /\ (IsBatchCall(last') /\ exchanges' # exchanges) =>
              BodyOf(lastBody', jobList) ]_vars

\* C21 witness: a batch of one job met a failing transport, a second job
\* was added and the next invocation sent both
C21_Witness ==
    /\ history.t = "history" /\ Len(history.v) >= 2
    /\ history.v[1].dir = "request" /\ history.v[2].dir = "request"
    /\ history.v[1].text.v.t = "list" /\ Len(history.v[1].text.v.v) = 1
    /\ history.v[2].text.v.t = "list" /\ Len(history.v[2].text.v.v) = 2
    /\ history.v[2].text = lastBody
    /\ IsBatchCall(last) /\ last.njobs = 2

----------------------------------------------------------------------------
(* Properties of the jobs of a batch *)

IsJobCall(op) == op.op = "MultiCallMethod.__call__"

\* The job has never been invoked with success: its params is still the
\* empty list it was created with
Uninvoked(job) == job.params = List(<<>>)

\* C22: the access to an attribute of the engine puts a job with empty
\* params in the job list at once; an invocation of a job with both
\* positional and keyword arguments raises and leaves the list as it was;
\* and a batch exchange sends one envelope for every job of the list, the
\* jobs not invoked with success too, those with their method and without
\* params.
C22_EnqueuedAtAccess ==
    [][ /\ last'.op = "MultiCall.__getattr__" =>
              /\ Len(jobList') = Len(jobList) + 1
              /\ SubSeq(jobList', 1, Len(jobList)) = jobList
              /\ Uninvoked(jobList'[Len(jobList')])
        /\ (IsJobCall(last') /\ last'.nargs > 0 /\ last'.nkwargs > 0) =>
              /\ Raised(last'.out) /\ last'.out.exc = "ProtocolError"
              /\ jobList' = jobList
        /\ (IsBatchCall(last') /\ exchanges' # exchanges) =>
              /\ Len(lastBody'.v.v) = Len(jobList)
              /\ \A i \in 1..Len(jobList) :
                    Uninvoked(jobList[i]) =>
                       /\ lastBody'.v.v[i].v["method"] = jobList[i].method
                       /\ ~Has(lastBody'.v.v[i], "params") ]_vars

\* C22 witness: a job that was not invoked with success and a job invoked
\* with one argument were sent together, the first without params
C22_Witness ==
    /\ IsBatchCall(last) /\ last.reply = TransportRaises
    /\ Len(jobList) = 2
    /\ Uninvoked(jobList[1]) /\ jobList[2].params = Tuple(<<PyInt(1)>>)
    /\ BodyOf(lastBody, jobList)
    /\ ~Has(lastBody.v.v[1], "params") /\ Has(lastBody.v.v[2], "params")

----------------------------------------------------------------------------
(* Properties of the version of a batch *)

\* C23: whatever version the proxy was built with and whatever the default
\* version is, every envelope of a batch body has jsonrpc "2.0", a
\* notification has no id key and a request has an id that is not null.
C23_BatchIsVersionTwo ==
    [][ (IsBatchCall(last') /\ exchanges' # exchanges) =>
            /\ lastBody'.v.t = "list" /\ Len(lastBody'.v.v) = Len(jobList)
            /\ \A i \in 1..Len(jobList) :
                  LET env == lastBody'.v.v[i]
                  IN  /\ Has(env, "jsonrpc") /\ env.v["jsonrpc"] = Str("2.0")
                      /\ jobList[i].notify => ~Has(env, "id")
                      /\ ~jobList[i].notify => (Has(env, "id") /\ env.v["id"] # None) ]_vars

\* C23 witness: over a proxy of version 1.0, the default being 1.1, a batch
\* of a notification and a request was sent as version 2.0
C23_Witness ==
    /\ version = 10 /\ cfgVersion = 11
    /\ IsBatchCall(last) /\ last.njobs = 2
    /\ lastBody # NoBody /\ Len(lastBody.v.v) = 2
    /\ lastBody.v.v[1].v["jsonrpc"] = Str("2.0") /\ ~Has(lastBody.v.v[1], "id")
    /\ lastBody.v.v[2].v["jsonrpc"] = Str("2.0") /\ Has(lastBody.v.v[2], "id")

====
